---- MODULE Spec2Model ----
(***************************************************************************)
(* Model of package certificate (src/certificate/certhandler.go):          *)
(* CreateCertificateTemplate with its helpers (getUsage, keyIdentifier,    *)
(* signatureAlgorithm, isStringInList) and CheckCertificate.               *)
(*                                                                         *)
(* Go slices are modelled as headers [arr, len, cap] into a heap of        *)
(* backing arrays, because CreateCertificateTemplate copies the caller's   *)
(* AlternativeNames header into the template and then appends to it.       *)
(***************************************************************************)
EXTENDS Integers, Sequences, FiniteSets, TLC

VARIABLES
    heap,       \* backing arrays of []string slices: heap[a] has length cap
    names,      \* the caller's AlternativeNames lists (slice headers)
    templates,  \* the *x509.Certificate templates returned so far
    status,     \* "running" | "fatal" (log.Fatal: os.Exit) | "panic"
    pc,         \* "run" (caller loop) | "call" (arguments drawn) | "done"
    args,       \* arguments of the call under check
    result      \* its return value

vars == <<heap, names, templates, status, pc, args, result>>

----------------------------------------------------------------------------
(* Bounds *)

MaxAltLen == 2
MaxSpare == 1
MaxNames == 2
MaxTemplates == 2
MaxIdLen == 2
MaxUsageLen == 3
MaxInter == 2

(* Input alphabets *)

HostNames == {"a.com", "b.com"}
CommonNames == {"", "a.com", "b.com", "c.com"}
IdBytes == {0, 1, 65}
UsageTokens == {"crlsign", "certsign", "encipherment", "signature",
                "contentcommitment", "clientauth", "serverauth",
                "CertSign", "bogus"}
HashTokens == {"SHA1", "SHA256", "SHA384", "SHA512", "", "unknown", "sha512"}
KeyKinds == {"rsa", "ecdsa", "ed25519", "nil"}
PrivateKeys == [kind : KeyKinds, n : {1}]

SeqsUpTo(S, n) == UNION {[1..k -> S] : k \in 0..n}

----------------------------------------------------------------------------
(* Go slices of strings *)

NilSlice == [arr |-> 0, len |-> 0, cap |-> 0]

\* make([]string, len, cap) filled with contents: the backing array
MakeArray(contents, spare) == contents \o [i \in 1..spare |-> ""]

\* the elements visible through a slice header
Elems(s, h) == [i \in 1..s.len |-> h[s.arr][i]]

\* runtime growslice for one appended element: 1 from nothing, else doubled
growslice(oldcap) == IF oldcap = 0 THEN 1 ELSE 2 * oldcap

\* append(s, x): in place when capacity is left, else into a new array
append(s, x, h) ==
    IF s.len < s.cap
    THEN [slice |-> [s EXCEPT !.len = s.len + 1],
          heap  |-> [h EXCEPT ![s.arr][s.len + 1] = x]]
    ELSE LET newcap == growslice(s.cap)
             arr == Elems(s, h) \o <<x>> \o [i \in 1..(newcap - s.len - 1) |-> ""]
         IN [slice |-> [arr |-> Len(h) + 1, len |-> s.len + 1, cap |-> newcap],
             heap  |-> Append(h, arr)]

isStringInList(value, list) == \E i \in 1..Len(list) : list[i] = value

----------------------------------------------------------------------------
(* x509 constants used by the package *)

KeyUsageDigitalSignature == 1
KeyUsageContentCommitment == 2
KeyUsageKeyEncipherment == 4
KeyUsageCertSign == 32
KeyUsageCRLSign == 64
ExtKeyUsageServerAuth == 1
ExtKeyUsageClientAuth == 2

\* the | of two KeyUsage bit sets
RECURSIVE BitOr(_, _)
BitOr(a, b) ==
    IF a = 0 THEN b
    ELSE IF b = 0 THEN a
    ELSE (IF a % 2 = 1 \/ b % 2 = 1 THEN 1 ELSE 0) + 2 * BitOr(a \div 2, b \div 2)

----------------------------------------------------------------------------
(* Usage policy *)

\* the two branches exchanged
getDefaultKeyUsage_Swapped(ca) ==
    IF ca
    THEN BitOr(KeyUsageKeyEncipherment, KeyUsageDigitalSignature)
    ELSE BitOr(KeyUsageCRLSign, KeyUsageCertSign)

getDefaultKeyUsage(ca) ==
    IF ca
    THEN BitOr(KeyUsageCRLSign, KeyUsageCertSign)
    ELSE BitOr(KeyUsageKeyEncipherment, KeyUsageDigitalSignature)

getDefaultExtKeyUsage(ca) ==
    IF ca
    THEN <<>>
    ELSE <<ExtKeyUsageClientAuth, ExtKeyUsageServerAuth>>

\* the for/switch loop of getUsage, from token i on
RECURSIVE usageLoop(_, _, _, _)
usageLoop(usage, i, keyUsage, extKeyUsage) ==
    IF i > Len(usage)
    THEN [keyUsage |-> keyUsage, extKeyUsage |-> extKeyUsage]
    ELSE LET key == usage[i] IN
         CASE key = "crlsign" ->
                usageLoop(usage, i + 1, BitOr(keyUsage, KeyUsageCRLSign), extKeyUsage)
           [] key = "certsign" ->
                usageLoop(usage, i + 1, BitOr(keyUsage, KeyUsageCertSign), extKeyUsage)
           [] key = "encipherment" ->
                usageLoop(usage, i + 1, BitOr(keyUsage, KeyUsageKeyEncipherment), extKeyUsage)
           [] key = "signature" ->
                usageLoop(usage, i + 1, BitOr(keyUsage, KeyUsageDigitalSignature), extKeyUsage)
           [] key = "contentcommitment" ->
                usageLoop(usage, i + 1, BitOr(keyUsage, KeyUsageContentCommitment), extKeyUsage)
           [] key = "clientauth" ->
                usageLoop(usage, i + 1, keyUsage, Append(extKeyUsage, ExtKeyUsageClientAuth))
           [] key = "serverauth" ->
                usageLoop(usage, i + 1, keyUsage, Append(extKeyUsage, ExtKeyUsageServerAuth))
           [] OTHER ->
                usageLoop(usage, i + 1, keyUsage, extKeyUsage)

\* falling back to the defaults when the loop recognized no token
getUsage_DefaultsWhenNothingRecognized(usage, ca) ==
    LET r == usageLoop(usage, 1, 0, <<>>) IN
    IF r.keyUsage = 0 /\ r.extKeyUsage = <<>>
    THEN [keyUsage |-> getDefaultKeyUsage(ca), extKeyUsage |-> getDefaultExtKeyUsage(ca)]
    ELSE r

getUsage(usage, ca) ==
    IF Len(usage) = 0
    THEN [keyUsage |-> getDefaultKeyUsage(ca), extKeyUsage |-> getDefaultExtKeyUsage(ca)]
    ELSE usageLoop(usage, 1, 0, <<>>)

----------------------------------------------------------------------------
(* Signature algorithm *)

findEcdsaSignALg(algType) ==
    CASE algType = "SHA1"   -> "ECDSAWithSHA1"
      [] algType = "SHA256" -> "ECDSAWithSHA256"
      [] algType = "SHA384" -> "ECDSAWithSHA384"
      [] algType = "SHA512" -> "ECDSAWithSHA512"
      [] OTHER              -> "ECDSAWithSHA256"

\* the default branch returning the SHA-1 variant
findRsaSignALg_DefaultSHA1(algType) ==
    CASE algType = "SHA1"   -> "SHA1WithRSA"
      [] algType = "SHA256" -> "SHA256WithRSA"
      [] algType = "SHA384" -> "SHA384WithRSA"
      [] algType = "SHA512" -> "SHA512WithRSA"
      [] OTHER              -> "SHA1WithRSA"

findRsaSignALg(algType) ==
    CASE algType = "SHA1"   -> "SHA1WithRSA"
      [] algType = "SHA256" -> "SHA256WithRSA"
      [] algType = "SHA384" -> "SHA384WithRSA"
      [] algType = "SHA512" -> "SHA512WithRSA"
      [] OTHER              -> "SHA256WithRSA"

\* log.Println in place of log.Fatal: the default branch returns
signatureAlgorithm_NoExit(algType, privateKey) ==
    CASE privateKey.kind = "rsa"   -> [fatal |-> FALSE, alg |-> findRsaSignALg(algType)]
      [] privateKey.kind = "ecdsa" -> [fatal |-> FALSE, alg |-> findEcdsaSignALg(algType)]
      [] OTHER -> [fatal |-> FALSE, alg |-> "UnknownSignatureAlgorithm"]

\* the type switch on the key; fatal: log.Fatal ended the process
signatureAlgorithm(algType, privateKey) ==
    CASE privateKey.kind = "rsa"   -> [fatal |-> FALSE, alg |-> findRsaSignALg(algType)]
      [] privateKey.kind = "ecdsa" -> [fatal |-> FALSE, alg |-> findEcdsaSignALg(algType)]
      [] OTHER -> [fatal |-> TRUE, alg |-> "UnknownSignatureAlgorithm"]

----------------------------------------------------------------------------
(* Keys: package key is a collaborator outside this source file *)

NoPublicKey == [kind |-> "nil", n |-> 0, public |-> TRUE]

\* key.PublicKey: the public half of an RSA or elliptic-curve private key
PublicKey(privateKey) ==
    IF privateKey.kind \in {"rsa", "ecdsa"}
    THEN [kind |-> privateKey.kind, n |-> privateKey.n, public |-> TRUE]
    ELSE NoPublicKey

\* key.PublicKeyBitArray: the key's canonical bytes (its error is dropped)
PublicKeyBitArray(pub) ==
    IF pub = NoPublicKey THEN <<>> ELSE <<pub.kind, pub.n>>

\* sha1 over the public key's bytes: a 20-byte digest, kept symbolic
keyIdentifier(pub) == [sha1 |-> PublicKeyBitArray(pub)]

----------------------------------------------------------------------------
(* Serial number: new(big.Int).SetBytes([]byte(data.Id)) *)

\* the bytes read least significant first
RECURSIVE SetBytes_LittleEndian(_)
SetBytes_LittleEndian(buf) ==
    IF Len(buf) = 0 THEN 0
    ELSE buf[1] + 256 * SetBytes_LittleEndian(Tail(buf))

\* big.Int.SetBytes: buf as a big-endian unsigned integer
RECURSIVE SetBytes(_)
SetBytes(buf) ==
    IF Len(buf) = 0 THEN 0
    ELSE 256 * SetBytes(SubSeq(buf, 1, Len(buf) - 1)) + buf[Len(buf)]

----------------------------------------------------------------------------
(* CreateCertificateTemplate *)

NoCert == [nil |-> TRUE]

\* without the len(data.AlternativeNames) > 0 guard
setDNSNames_Unguarded(cert, data, h) ==
    LET c1 == [cert EXCEPT !.DNSNames = data.AlternativeNames] IN
    IF ~isStringInList(data.CommonName, Elems(data.AlternativeNames, h))
    THEN LET a == append(c1.DNSNames, data.CommonName, h)
         IN [cert |-> [c1 EXCEPT !.DNSNames = a.slice], heap |-> a.heap]
    ELSE [cert |-> c1, heap |-> h]

\* the SAN block: DNSNames shares the caller's backing array, then append
setDNSNames(cert, data, h) ==
    IF data.AlternativeNames.len > 0
    THEN LET c1 == [cert EXCEPT !.DNSNames = data.AlternativeNames] IN
         IF ~isStringInList(data.CommonName, Elems(data.AlternativeNames, h))
         THEN LET a == append(c1.DNSNames, data.CommonName, h)
              IN [cert |-> [c1 EXCEPT !.DNSNames = a.slice], heap |-> a.heap]
         ELSE [cert |-> c1, heap |-> h]
    ELSE [cert |-> cert, heap |-> h]

CreateCertificateTemplate(data, h) ==
    LET pub == PublicKey(data.PrivateKey)
        subjectKeyId == keyIdentifier(pub)
        u == getUsage(data.Usage, data.CA)
        sig == signatureAlgorithm(data.SignatureAlg, data.PrivateKey)
    IN IF sig.fatal
       THEN [fatal |-> TRUE, cert |-> NoCert, heap |-> h]
       ELSE LET cert0 == [SerialNumber |-> SetBytes(data.Id),
                          Subject |-> [Country |-> <<data.Country>>,
                                       Organization |-> <<data.Organization>>,
                                       OrganizationalUnit |-> <<data.OrganizationalUnit>>,
                                       CommonName |-> ""],
                          NotBefore |-> data.ValidFrom,
                          NotAfter |-> data.ValidTo,
                          SubjectKeyId |-> subjectKeyId,
                          BasicConstraintsValid |-> TRUE,
                          SignatureAlgorithm |-> sig.alg,
                          IsCA |-> data.CA,
                          ExtKeyUsage |-> u.extKeyUsage,
                          KeyUsage |-> u.keyUsage,
                          DNSNames |-> NilSlice]
                cert1 == IF data.CommonName # ""
                         THEN [cert0 EXCEPT !.Subject.CommonName = data.CommonName]
                         ELSE cert0
                r == setDNSNames(cert1, data, h)
            IN [fatal |-> FALSE, cert |-> r.cert, heap |-> r.heap]

\* type Certificate, with the fields the caller varies
Certificate(id, cn, alt, usage, ca, privateKey, sigAlg) ==
    [Id |-> id, Country |-> "SE", Organization |-> "Org",
     OrganizationalUnit |-> "Unit", CommonName |-> cn,
     AlternativeNames |-> alt, Usage |-> usage, CA |-> ca,
     PrivateKey |-> privateKey, SignatureAlg |-> sigAlg,
     ValidFrom |-> 0, ValidTo |-> 1]

----------------------------------------------------------------------------
(* CheckCertificate and the x509 calls it makes *)

RootCA == [subject |-> "root", issuer |-> "root", dns |-> {}, isCA |-> TRUE]
OtherCA == [subject |-> "other", issuer |-> "other", dns |-> {}, isCA |-> TRUE]
InterCA == [subject |-> "inter", issuer |-> "root", dns |-> {}, isCA |-> TRUE]
LeafByRoot == [subject |-> "leaf", issuer |-> "root",
               dns |-> {"example.com"}, isCA |-> FALSE]
LeafByInter == [subject |-> "leaf", issuer |-> "inter",
                dns |-> {"example.com"}, isCA |-> FALSE]

\* DER bytes: the encoding of a certificate, or bytes that do not parse
DER(c) == [ok |-> TRUE, cert |-> c]
Garbage == [ok |-> FALSE, cert |-> NoCert]

\* rootCert, _ := x509.ParseCertificate(b): nil when b does not parse
ParseCertificate(b) == IF b.ok THEN b.cert ELSE NoCert

\* interCerts, _ := x509.ParseCertificates(b): nil when any part does not parse
ParseCertificates(bs) ==
    IF \A i \in 1..Len(bs) : bs[i].ok
    THEN [i \in 1..Len(bs) |-> bs[i].cert]
    ELSE <<>>

\* chain building of Certificate.Verify: up through CA intermediates to a root
RECURSIVE buildChains(_, _, _)
buildChains(c, roots, inters) ==
    \/ c \in roots
    \/ \E r \in roots : c.issuer = r.subject
    \/ \E i \in inters : /\ i.isCA
                         /\ c.issuer = i.subject
                         /\ buildChains(i, roots, inters \ {i})

\* clientCert.Verify(opts) on a parsed certificate: TRUE when certErr == nil
Verify(c, opts) ==
    /\ buildChains(c, opts.Roots, opts.Intermediates)
    /\ opts.DNSName \in c.dns

\* panic: CertPool.AddCert(nil) and (*Certificate)(nil).Verify both panic
CheckCertificate(dnsName, caBytes, interCaBytes, clientBytes) ==
    LET rootCert == ParseCertificate(caBytes) IN
    IF rootCert = NoCert
    THEN [panic |-> TRUE, ret |-> FALSE]
    ELSE LET rootPool == {rootCert}
             interCerts == ParseCertificates(interCaBytes)
             interCaPool == {interCerts[i] : i \in 1..Len(interCerts)}
             opts == [DNSName |-> dnsName, Roots |-> rootPool,
                      Intermediates |-> interCaPool]
             clientCert == ParseCertificate(clientBytes)
         IN IF clientCert = NoCert
            THEN [panic |-> TRUE, ret |-> FALSE]
            ELSE [panic |-> FALSE, ret |-> Verify(clientCert, opts)]

----------------------------------------------------------------------------
(* Spec: a caller that keeps AlternativeNames lists and builds templates,   *)
(* each descriptor with a common name of its own                           *)

NoArgs == [none |-> TRUE]
NoResult == [none |-> TRUE]

Init ==
    /\ heap = <<>>
    /\ names = <<>>
    /\ templates = <<>>
    /\ status = "running"
    /\ pc = "run"
    /\ args = NoArgs
    /\ result = NoResult

\* names := make([]string, len, cap) filled by the caller
MakeNames(contents, spare) ==
    /\ pc = "run"
    /\ status = "running"
    /\ Len(names) < MaxNames
    /\ heap' = Append(heap, MakeArray(contents, spare))
    /\ names' = Append(names, [arr |-> Len(heap) + 1, len |-> Len(contents),
                               cap |-> Len(contents) + spare])
    /\ UNCHANGED <<templates, status, pc, args, result>>

\* tmpl := CreateCertificateTemplate(data), the template kept by the caller
Build(data) ==
    /\ pc = "run"
    /\ status = "running"
    /\ Len(templates) < MaxTemplates
    /\ LET r == CreateCertificateTemplate(data, heap) IN
       IF r.fatal
       THEN /\ status' = "fatal"
            /\ UNCHANGED <<heap, templates>>
       ELSE /\ templates' = Append(templates, r.cert)
            /\ heap' = r.heap
            /\ status' = status
    /\ UNCHANGED <<names, pc, args, result>>

CallerLists == {NilSlice} \cup {names[i] : i \in 1..Len(names)}

Next ==
    \/ \E contents \in SeqsUpTo(HostNames, MaxAltLen), spare \in 0..MaxSpare :
         MakeNames(contents, spare)
    \/ \E alt \in CallerLists, cn \in CommonNames \ {""}, ca \in BOOLEAN,
          kind \in {"rsa", "ed25519"} :
         Build(Certificate(<<65>>, cn, alt, <<>>, ca, [kind |-> kind, n |-> 1], "SHA256"))

Spec == Init /\ [][Next]_vars

----------------------------------------------------------------------------
(* SpecBuild: one CreateCertificateTemplate call on a drawn descriptor *)

BuildIds == {<<>>, <<65>>, <<0, 65>>}
BuildUsages == {<<>>, <<"certsign">>, <<"bogus">>, <<"clientauth", "signature">>}

InitBuild ==
    /\ \E contents \in SeqsUpTo(HostNames, MaxAltLen), spare \in 0..MaxSpare,
          isNil \in BOOLEAN :
         IF isNil
         THEN /\ contents = <<>>
              /\ spare = 0
              /\ heap = <<>>
              /\ names = <<NilSlice>>
         ELSE /\ heap = <<MakeArray(contents, spare)>>
              /\ names = <<[arr |-> 1, len |-> Len(contents),
                            cap |-> Len(contents) + spare]>>
    /\ \E id \in BuildIds, cn \in CommonNames, usage \in BuildUsages,
          ca \in BOOLEAN, privateKey \in PrivateKeys, sigAlg \in HashTokens :
         args = Certificate(id, cn, names[1], usage, ca, privateKey, sigAlg)
    /\ templates = <<>>
    /\ status = "running"
    /\ pc = "call"
    /\ result = NoCert

BuildTemplate ==
    /\ pc = "call"
    /\ LET r == CreateCertificateTemplate(args, heap) IN
       /\ result' = r.cert
       /\ heap' = r.heap
       /\ status' = IF r.fatal THEN "fatal" ELSE status
       /\ templates' = IF r.fatal THEN templates ELSE Append(templates, r.cert)
    /\ pc' = "done"
    /\ UNCHANGED <<names, args>>

NextBuild == BuildTemplate

SpecBuild == InitBuild /\ [][NextBuild]_vars

----------------------------------------------------------------------------
(* SpecUsage: one getUsage call on a drawn token list *)

InitUsage ==
    /\ args \in [usage : SeqsUpTo(UsageTokens, MaxUsageLen), ca : BOOLEAN]
    /\ heap = <<>>
    /\ names = <<>>
    /\ templates = <<>>
    /\ status = "running"
    /\ pc = "call"
    /\ result = NoResult

ResolveUsage ==
    /\ pc = "call"
    /\ result' = getUsage(args.usage, args.ca)
    /\ pc' = "done"
    /\ UNCHANGED <<heap, names, templates, status, args>>

NextUsage == ResolveUsage

SpecUsage == InitUsage /\ [][NextUsage]_vars

----------------------------------------------------------------------------
(* SpecSerial: two descriptors that differ in Id only, both built *)

SerialDescriptor(id) ==
    Certificate(id, "a.com", NilSlice, <<>>, FALSE, [kind |-> "rsa", n |-> 1], "SHA256")

InitSerial ==
    /\ \E a \in SeqsUpTo(IdBytes, MaxIdLen), b \in SeqsUpTo(IdBytes, MaxIdLen) :
         args = [a |-> SerialDescriptor(a), b |-> SerialDescriptor(b)]
    /\ heap = <<>>
    /\ names = <<>>
    /\ templates = <<>>
    /\ status = "running"
    /\ pc = "call"
    /\ result = NoResult

BuildPair ==
    /\ pc = "call"
    /\ LET ra == CreateCertificateTemplate(args.a, heap)
           rb == CreateCertificateTemplate(args.b, ra.heap)
       IN /\ result' = [a |-> ra.cert, b |-> rb.cert]
          /\ templates' = <<ra.cert, rb.cert>>
          /\ heap' = rb.heap
    /\ pc' = "done"
    /\ UNCHANGED <<names, status, args>>

NextSerial == BuildPair

SpecSerial == InitSerial /\ [][NextSerial]_vars

----------------------------------------------------------------------------
(* SpecVerify: one CheckCertificate call on drawn byte inputs *)

InitVerify ==
    /\ args \in [dnsName : {"example.com", "other.com"},
                 caBytes : {DER(RootCA), DER(OtherCA), Garbage},
                 interCaBytes : SeqsUpTo({DER(InterCA), Garbage}, MaxInter),
                 clientBytes : {DER(LeafByRoot), DER(LeafByInter), Garbage}]
    /\ heap = <<>>
    /\ names = <<>>
    /\ templates = <<>>
    /\ status = "running"
    /\ pc = "call"
    /\ result = NoResult

Check ==
    /\ pc = "call"
    /\ LET r == CheckCertificate(args.dnsName, args.caBytes,
                                 args.interCaBytes, args.clientBytes)
       IN IF r.panic
          THEN /\ status' = "panic"
               /\ result' = NoResult
          ELSE /\ status' = status
               /\ result' = [ret |-> r.ret]
    /\ pc' = "done"
    /\ UNCHANGED <<heap, names, templates, args>>

NextVerify == Check

SpecVerify == InitVerify /\ [][NextVerify]_vars

----------------------------------------------------------------------------
(* Properties *)

Range(f) == {f[i] : i \in 1..Len(f)}

Built == pc = "done" /\ status = "running"

\* the strings a template's DNSNames header shows, read through the heap
DNSNamesOf(cert, h) == Elems(cert.DNSNames, h)

\* a template by value: every field, DNSNames as the strings it shows
TemplateValue(cert, h) == [cert EXCEPT !.DNSNames = Elems(cert.DNSNames, h)]

\* C1: when alternativeNames is non-empty the template's DNS names are
\* alternativeNames, followed by commonName exactly when commonName is
\* non-empty and not already in the list.
C1_SanPrecedence ==
    (Built /\ args.AlternativeNames.len > 0) =>
        LET alt == Elems(args.AlternativeNames, heap)
            cn == args.CommonName
        IN DNSNamesOf(result, heap) =
             alt \o (IF cn # "" /\ cn \notin Range(alt) THEN <<cn>> ELSE <<>>)

\* C2: once a template has been returned, no later CreateCertificateTemplate
\* call changes any of its fields (its DNS names included), nor the caller's
\* alternativeNames lists.
C2_TemplateNeverMutated ==
    [][ /\ \A i \in 1..Len(templates) :
             TemplateValue(templates[i], heap) = TemplateValue(templates'[i], heap')
        /\ \A j \in 1..Len(names) :
             Elems(names[j], heap) = Elems(names'[j], heap') ]_vars

Malformed(a) ==
    \/ ~a.caBytes.ok
    \/ ~a.clientBytes.ok
    \/ \E i \in 1..Len(a.interCaBytes) : ~a.interCaBytes[i].ok

\* C3: whenever one of the three byte inputs of CheckCertificate fails to
\* parse, the call completes (no crash) and returns false.
C3_ParseFailureYieldsFalse ==
    (pc = "done" /\ Malformed(args)) =>
        (status = "running" /\ result = [ret |-> FALSE])

RECURSIVE Pow256(_)
Pow256(k) == IF k = 0 THEN 1 ELSE 256 * Pow256(k - 1)

RECURSIVE WeightedSum(_, _)
WeightedSum(buf, i) ==
    IF i > Len(buf) THEN 0
    ELSE buf[i] * Pow256(Len(buf) - i) + WeightedSum(buf, i + 1)

BigEndianValue(buf) == WeightedSum(buf, 1)

NoLeadingZero(buf) == Len(buf) = 0 \/ buf[1] # 0

SerialsAreBigEndian ==
    /\ result.a.SerialNumber = BigEndianValue(args.a.Id)
    /\ result.b.SerialNumber = BigEndianValue(args.b.Id)

\* C4 as stated: the serial is the big-endian integer of the bytes of id, and
\* any two ids of different byte lengths get different serial numbers.
C4_DifferentLengthsNeverCollide ==
    pc = "done" =>
        /\ SerialsAreBigEndian
        /\ Len(args.a.Id) # Len(args.b.Id) =>
             result.a.SerialNumber # result.b.SerialNumber

\* C4 amended: the serial is the big-endian integer of the bytes of id, and
\* two ids of different byte lengths get different serial numbers provided
\* neither begins with a zero byte.
C4_DifferentLengthsNoLeadingZero ==
    pc = "done" =>
        /\ SerialsAreBigEndian
        /\ ( /\ Len(args.a.Id) # Len(args.b.Id)
             /\ NoLeadingZero(args.a.Id)
             /\ NoLeadingZero(args.b.Id) ) =>
             result.a.SerialNumber # result.b.SerialNumber

C4_Witness ==
    /\ pc = "done"
    /\ args.a.Id = <<65>>
    /\ args.b.Id = <<65, 65>>
    /\ result.a.SerialNumber = 65
    /\ result.b.SerialNumber = 16705

AlgFamily(alg) ==
    CASE alg \in {"SHA1WithRSA", "SHA256WithRSA", "SHA384WithRSA", "SHA512WithRSA"} -> "rsa"
      [] alg \in {"ECDSAWithSHA1", "ECDSAWithSHA256", "ECDSAWithSHA384", "ECDSAWithSHA512"} -> "ecdsa"
      [] OTHER -> "none"

AlgHash(alg) ==
    CASE alg \in {"SHA1WithRSA", "ECDSAWithSHA1"} -> "SHA1"
      [] alg \in {"SHA256WithRSA", "ECDSAWithSHA256"} -> "SHA256"
      [] alg \in {"SHA384WithRSA", "ECDSAWithSHA384"} -> "SHA384"
      [] alg \in {"SHA512WithRSA", "ECDSAWithSHA512"} -> "SHA512"
      [] OTHER -> "none"

\* C5: for an RSA or elliptic-curve key and any hash token, the template's
\* signature algorithm is of the key's family and has the token's hash, with
\* SHA-256 for every token other than SHA1, SHA256, SHA384, SHA512.
C5_AlgorithmMatchesKeyAndHash ==
    Built =>
        /\ AlgFamily(result.SignatureAlgorithm) = args.PrivateKey.kind
        /\ AlgHash(result.SignatureAlgorithm) =
             (IF args.SignatureAlg \in {"SHA1", "SHA256", "SHA384", "SHA512"}
              THEN args.SignatureAlg ELSE "SHA256")

C5_Witness ==
    /\ Built
    /\ args.PrivateKey.kind = "ecdsa"
    /\ args.SignatureAlg = "unknown"
    /\ result.SignatureAlgorithm = "ECDSAWithSHA256"

\* the key-usage bits set in n
BitsOf(n) == {b \in {1, 2, 4, 8, 16, 32, 64, 128, 256} : (n \div b) % 2 = 1}

\* C6: with no usage tokens the template of a CA descriptor has key usage
\* exactly CertSign|CRLSign and no extended usage; that of a non-CA descriptor
\* has exactly KeyEncipherment|DigitalSignature and [ClientAuth, ServerAuth].
C6_DefaultUsage ==
    (Built /\ Len(args.Usage) = 0) =>
        /\ result.KeyUsage < 512
        /\ result.IsCA = args.CA
        /\ IF args.CA
           THEN /\ BitsOf(result.KeyUsage) = {KeyUsageCertSign, KeyUsageCRLSign}
                /\ result.ExtKeyUsage = <<>>
           ELSE /\ BitsOf(result.KeyUsage) =
                     {KeyUsageKeyEncipherment, KeyUsageDigitalSignature}
                /\ result.ExtKeyUsage = <<ExtKeyUsageClientAuth, ExtKeyUsageServerAuth>>

C6_Witness ==
    /\ Built
    /\ Len(args.Usage) = 0
    /\ args.CA
    /\ result.IsCA
    /\ result.ExtKeyUsage = <<>>

TokenBit(t) ==
    CASE t = "crlsign" -> KeyUsageCRLSign
      [] t = "certsign" -> KeyUsageCertSign
      [] t = "encipherment" -> KeyUsageKeyEncipherment
      [] t = "signature" -> KeyUsageDigitalSignature
      [] t = "contentcommitment" -> KeyUsageContentCommitment

KeyUsageTokens == {"crlsign", "certsign", "encipherment", "signature", "contentcommitment"}

IsExtUsageToken(t) == t \in {"clientauth", "serverauth"}

ExtEntries(usage) ==
    LET sel == SelectSeq(usage, IsExtUsageToken) IN
    [i \in 1..Len(sel) |-> IF sel[i] = "clientauth"
                           THEN ExtKeyUsageClientAuth ELSE ExtKeyUsageServerAuth]

\* C7: for a non-empty token list and either CA flag, the key-usage bits are
\* exactly those of the recognized key-usage tokens present, the extended
\* usage has one entry per clientauth/serverauth occurrence in input order,
\* and unrecognized tokens add nothing: the defaults are never applied.
C7_TokensResolve ==
    (pc = "done" /\ Len(args.usage) > 0) =>
        /\ result.keyUsage < 512
        /\ BitsOf(result.keyUsage) =
             {TokenBit(t) : t \in Range(args.usage) \cap KeyUsageTokens}
        /\ result.extKeyUsage = ExtEntries(args.usage)

C7_Witness ==
    /\ pc = "done"
    /\ args.usage = <<"serverauth", "bogus", "serverauth">>
    /\ result.keyUsage = 0
    /\ Len(result.extKeyUsage) = 2

\* C8: when alternativeNames is empty the template has no DNS-name list,
\* whatever commonName is.
C8_NoSanWithoutAlternativeNames ==
    (Built /\ args.AlternativeNames.len = 0) => result.DNSNames = NilSlice

C8_Witness ==
    /\ Built
    /\ args.AlternativeNames.len = 0
    /\ args.CommonName = "a.com"
    /\ result.Subject.CommonName = "a.com"

\* C9: whenever the template carries a DNS-name list, the common name is its
\* first entry.
C9_CommonNameIsFirstSan ==
    (Built /\ result.DNSNames.len > 0) =>
        DNSNamesOf(result, heap)[1] = args.CommonName

\* C10: template building ends in the fatal state exactly when the private
\* key is neither RSA nor elliptic-curve; then no template is returned, and
\* in every other case one is.
C10_FatalIffUnsupportedKey ==
    pc = "done" =>
        /\ (status = "fatal") <=> (args.PrivateKey.kind \notin {"rsa", "ecdsa"})
        /\ status = "fatal" => (result = NoCert /\ templates = <<>>)
        /\ status # "fatal" =>
             /\ result # NoCert
             /\ templates = <<result>>
             /\ result.SignatureAlgorithm # "UnknownSignatureAlgorithm"

C10_Witness ==
    /\ pc = "done"
    /\ status = "fatal"
    /\ args.PrivateKey.kind = "ed25519"
    /\ result = NoCert

====
